---------------------------- MODULE Spec2Model ----------------------------
(***************************************************************************)
(* A model of ChaosApiClient (src/python_interface/api_client.py): the     *)
(* session state (access token, refresh token, request headers, the token  *)
(* file), the request executor (_request with its refresh-and-retry), and  *)
(* the WebSocket session (connect, receive loop, dispatch, send, close).   *)
(*                                                                         *)
(* The client runs on an asyncio event loop: a coroutine runs atomically   *)
(* from one await to the next.  Every action below is one such stretch of  *)
(* one coroutine: a ...Start action is a call up to its first await, a     *)
(* ...Recv / ...Done action is the resumption with what the awaited        *)
(* transport call produced, up to the next await or the end of the call.   *)
(***************************************************************************)
EXTENDS Integers, Sequences, FiniteSets, TLC

\* ------------------------------------------------------------------ bounds

\* Calls the caller makes, one after the other, in one behaviour of Spec.
MaxOps == 3
\* Calls the caller makes in one behaviour of StreamSpec.
MaxStreamOps == 3
\* on_event calls the caller makes in one behaviour of DispatchSpec.
MaxRegs == 3
\* Inbound frames the server sends in one behaviour of DispatchSpec.
MaxFrames == 2
\* Calls the caller makes in one behaviour of ClientSpec.
MaxClientOps == 2
\* Inbound frames the server sends in one behaviour of ClientSpec.
MaxClientFrames == 1
\* Calls each of the two callers makes in one behaviour of SharedSpec.
MaxSharedOps == 2

\* ------------------------------------------------------------ Python values

\* Python's None, kept apart from every string a token can be.
None == "<None>"
\* A dict key that is not there.
Absent == "<absent>"

\* Opaque bearer tokens and refresh tokens the backend may hand out.
Tokens == {"t1", "t2", "t3"}
RefreshTokens == {"r1", "r2"}

\* bool(x) of a token value: None is falsy, a token is truthy.
Truthy(x) == x # None

\* str(x) inside an f-string: None is formatted as the text "None".
Str(x) == IF x = None THEN "None" ELSE x

\* f"Bearer {token}"
Bearer(tok) == "Bearer " \o Str(tok)

\* d[k] = v on a dict modelled as a function on its keys.
DictSet(d, k, v) == [x \in (DOMAIN d) \cup {k} |-> IF x = k THEN v ELSE d[x]]

\* d.pop(k, None)
DictPop(d, k) == [x \in (DOMAIN d) \ {k} |-> d[x]]

\* d.get(k) with Absent standing for "no such key".
DictGet(d, k) == IF k \in DOMAIN d THEN d[k] ELSE Absent

\* ------------------------------------------------------- transport outcomes

\* The "error" member of a response body: missing, not an object (a string,
\* null, a list), or an object whose message and code may each be missing.
NoErr == [kind |-> "missing", message |-> Absent, code |-> Absent]
BadErr == [kind |-> "nonobj", message |-> Absent, code |-> Absent]
ErrObj(m, c) == [kind |-> "obj", message |-> m, code |-> c]

ErrEnvelopes ==
    {NoErr, BadErr} \cup {ErrObj(m, c) : m \in {Absent, "denied"}, c \in {Absent, "E_BACKEND"}}

\* A decoded JSON body: an object (its token, refreshToken and error members)
\* or some other JSON value (a list, a string), on which .get() raises.
ObjBody(tok, rt, err, data) ==
    [kind |-> "obj", token |-> tok, refreshToken |-> rt, err |-> err, data |-> data]
NonObjBody ==
    [kind |-> "nonobj", token |-> None, refreshToken |-> None, err |-> NoErr, data |-> Absent]
NoBody ==
    [kind |-> "none", token |-> None, refreshToken |-> None, err |-> NoErr, data |-> Absent]

\* What one HTTP exchange produces.  kind "fail": session.post(...) or
\* response.json() raised (no connection, timeout, a body that is not JSON).
\* kind "resp": a status and a decoded body.
TransportFail == [kind |-> "fail", status |-> 0, body |-> NoBody]
Resp(st, b) == [kind |-> "resp", status |-> st, body |-> b]
NoResp == [kind |-> "none", status |-> 0, body |-> NoBody]

\* response.ok (aiohttp: status below 400)
Ok(r) == r.status < 400

OkStatuses == {200}
ErrStatuses == {401, 500}

\* Bodies a backend sends with a non-success status.
ErrBodies == {NonObjBody} \cup {ObjBody(None, None, e, Absent) : e \in ErrEnvelopes}

\* Bodies a backend sends on a successful login: the token and the refresh
\* token may each be missing.
LoginBodies ==
    {NonObjBody} \cup
    {ObjBody(t, r, NoErr, "user") : t \in {"t2", None}, r \in {"r2", None}}

\* Bodies a backend sends on a successful refresh.
RefreshBodies ==
    {NonObjBody} \cup {ObjBody(t, None, NoErr, Absent) : t \in {"t3", None}}

\* Bodies a backend sends on a successful API call.
DataBodies == {NonObjBody, ObjBody(None, None, NoErr, "payload")}

ErrResponses == {Resp(s, b) : s \in ErrStatuses, b \in ErrBodies}

LoginOutcomes ==
    {TransportFail} \cup ErrResponses \cup {Resp(s, b) : s \in OkStatuses, b \in LoginBodies}
RefreshOutcomes ==
    {TransportFail} \cup {Resp(s, NonObjBody) : s \in ErrStatuses}
        \cup {Resp(s, b) : s \in OkStatuses, b \in RefreshBodies}
LogoutOutcomes ==
    {TransportFail} \cup {Resp(s, NoBody) : s \in OkStatuses \cup ErrStatuses}
RequestOutcomes ==
    {TransportFail} \cup ErrResponses \cup {Resp(s, b) : s \in OkStatuses, b \in DataBodies}

\* ---------------------------------------------- WebSocket frames and tasks

\* The event name the listener consumes without dispatch.
Established == "connection:established"

\* Event types the application registers handlers for and the server sends.
EventTypes == {"message", Established}

\* Callbacks of the application: a plain function that returns, a plain
\* function that raises, and a coroutine function that suspends before it
\* returns or raises.
Handlers == {"hSync", "hRaise", "hAsync"}

\* asyncio.iscoroutinefunction(callback)
IsCoroutine(h) == h = "hAsync"

\* Whether calling the plain callback h raises.
Raises(h) == h = "hRaise"

\* Inbound text frames: text that is not JSON, JSON that is no object, and
\* envelopes {event, data} whose data member may be missing.
BadFrame == [kind |-> "malformed", event |-> Absent, data |-> Absent]
NonObjFrame == [kind |-> "nonobj", event |-> Absent, data |-> Absent]
Envelope(e, d) == [kind |-> "obj", event |-> e, data |-> d]
\* No frame received yet.
NoFrame == [kind |-> "none", event |-> Absent, data |-> Absent]

Frames ==
    {BadFrame, NonObjFrame, Envelope("message", Absent)}
        \cup {Envelope(e, "hi") : e \in EventTypes}

\* data.get("data", {})
PayloadOf(f) == IF f.data = Absent THEN "{}" ELSE f.data

\* Registered with a catch-all handler standing in where nothing is
\* registered.
RegisteredWithFallback(cbs, e) == IF e \in DOMAIN cbs THEN cbs[e] ELSE <<"hSync">>

\* self._ws_callbacks.get(event_type, []) as a sequence
Registered(cbs, e) == IF e \in DOMAIN cbs THEN cbs[e] ELSE <<>>

\* A connection object websockets.connect returned: whether the stream is
\* open, and the frames written to it.
NewConn == [open |-> TRUE, out |-> <<>>]

\* A _ws_listener task.  reads: the connection it iterates (0: none yet);
\* frame: the frame it received last; ev, data: event_type and payload of
\* the envelope it is dispatching or dispatched last; idx: the
\* position in the handler list it stands at; invoked: the callbacks called
\* for that envelope, with the argument each got; regs: the on_event calls
\* made for ev up to the listener's last step; skipped: frames it dropped
\* as undecodable; raised: the calls it made, over all frames, of a callback
\* that raises; aheadC, aheadL: the callers and listeners that may run
\* before this task runs for the first time.
NewListener(ac, al) ==
    [pc |-> "created", reads |-> 0, frame |-> NoFrame, ev |-> Absent, data |-> Absent, idx |-> 0,
     invoked |-> <<>>, regs |-> <<>>, skipped |-> 0, raised |-> 0,
     aheadC |-> ac, aheadL |-> al]

\* ------------------------------------------------------------------- state

VARIABLES
    token,          \* self._token
    refresh,        \* self._refresh_token
    headers,        \* self._headers
    tokenFile,      \* the file at config.get_auth_token_path()
    task,           \* per caller: the call it is in and where it stands
    opsLeft,        \* per caller: the calls it may still start
    wsConnection,   \* self._ws_connection: 0 for None, else a connection
    wsCallbacks,    \* self._ws_callbacks
    conns,          \* the transport's connection objects
    listeners,      \* the _ws_listener tasks
    framesLeft,     \* frames the server may still send
    connectCalls,   \* calls of websockets.connect made so far
    regOrder        \* per event type, the handlers of the on_event calls
                    \* made so far, oldest first

sessionVars == <<token, refresh, headers, tokenFile>>
streamVars ==
    <<wsConnection, wsCallbacks, conns, listeners, framesLeft, connectCalls, regOrder>>
\* The WebSocket side without the listener tasks.
wireVars == <<wsConnection, wsCallbacks, conns, framesLeft, connectCalls, regOrder>>
vars == <<token, refresh, headers, tokenFile, task, opsLeft,
          wsConnection, wsCallbacks, conns, listeners, framesLeft, connectCalls, regOrder>>

\* The coroutines of the application that call the client.
Callers == {"c1", "c2"}


\* --------------------------------------------------------- calls and results

\* How a call ended: it returned (val is the text of a returned bool or
\* None, body a returned response body) or it raised.
NoRes ==
    [kind |-> "none", exc |-> Absent, status |-> 0, code |-> Absent,
     message |-> Absent, val |-> Absent, body |-> NoBody]
Return(v) == [NoRes EXCEPT !.kind = "return", !.val = v]
ReturnBody(b) == [NoRes EXCEPT !.kind = "return", !.val = "body", !.body = b]
Raise(e) == [NoRes EXCEPT !.kind = "raise", !.exc = e]

\* ApiError(status_code, message, code, details)
ApiError(st, m, c) ==
    [NoRes EXCEPT !.kind = "raise", !.exc = "ApiError", !.status = st,
                  !.message = m, !.code = c]

\* error.get(key, default) on the members of an error object
FieldOr(v, default) == IF v = Absent THEN default ELSE v

\* The Authorization header a request sent now carries.
AuthOf(h) == DictGet(h, "Authorization")

\* The credentials as a caller can observe them.
Creds == [token |-> token, refresh |-> refresh, auth |-> AuthOf(headers)]

\* A caller that is in no call.  Of a call in progress the record keeps the
\* arguments and locals (retryAuth: retry_auth of the innermost _request;
\* cur: the response that _request holds; conn: the connection a websocket
\* call works on) and what the call did so far (nSend: requests sent to the
\* endpoint called; nRefresh: refresh_token() calls; resp1: the first
\* response of the call; refreshed: how its refresh ended; sent: the
\* Authorization header of each request sent; pre: the credentials when the
\* call began; nConnect, nWrite: transport connects and frames written).
IdleTask ==
    [op |-> "idle", pc |-> "idle", res |-> NoRes,
     retryAuth |-> TRUE, cur |-> NoResp,
     nSend |-> 0, nRefresh |-> 0, resp1 |-> NoResp, refreshed |-> "no",
     sent |-> <<>>, pre |-> [token |-> None, refresh |-> None, auth |-> Absent],
     conn |-> 0, nConnect |-> 0, nWrite |-> 0]

\* A caller entering the call `op`, its counters at zero.
Enter(op) == [IdleTask EXCEPT !.op = op, !.pre = Creds]

\* self._save_tokens(): the file is written only when both tokens are set.
SaveTokens(tok, rt, file) ==
    IF Truthy(tok) /\ Truthy(rt)
    THEN [kind |-> "json", token |-> tok, refreshToken |-> rt]
    ELSE file

NoFile == [kind |-> "absent", token |-> None, refreshToken |-> None]
CorruptFile == [kind |-> "corrupt", token |-> None, refreshToken |-> None]

\* ---------------------------------------------------------------- __init__

\* The headers __init__ builds for an access token.
InitHeaders(tok) ==
    IF Truthy(tok)
    THEN [k \in {"Content-Type", "Authorization"} |->
            IF k = "Authorization" THEN Bearer(tok) ELSE "application/json"]
    ELSE [k \in {"Content-Type"} |-> "application/json"]

\* _load_tokens(): the access token a client constructed without one reads
\* from the token file; a missing or unreadable file leaves it unset.
LoadedToken(arg, file) ==
    IF Truthy(arg) THEN arg
    ELSE IF file.kind = "json" THEN file.token ELSE None

LoadedRefresh(arg, file) ==
    IF Truthy(arg) THEN None
    ELSE IF file.kind = "json" THEN file.refreshToken ELSE None

\* The token files a client can find when it is constructed.
InitFiles == {NoFile, CorruptFile, [kind |-> "json", token |-> "t1", refreshToken |-> "r1"]}

\* ChaosApiClient(token=arg) with the token file `file` on disk.
Construct(arg, file) ==
    /\ token = LoadedToken(arg, file)
    /\ refresh = LoadedRefresh(arg, file)
    /\ headers = InitHeaders(LoadedToken(arg, file))
    /\ tokenFile = file
    /\ wsConnection = 0
    /\ wsCallbacks = <<>>
    /\ regOrder = [e \in EventTypes |-> <<>>]
    /\ task = [c \in Callers |-> IdleTask]

\* ---------------------------------------------------------------- scheduling

Listeners == 1..Len(listeners)

\* Tasks created and not yet run.
Pending == {l \in Listeners : listeners[l].pc = "created"}

\* CallerMayRun with the callers held back while a listener awaits a
\* coroutine callback.
CallerMayRunBetweenHandlers(c) ==
    /\ \A l \in Pending : c \in listeners[l].aheadC
    /\ \A l \in Listeners : listeners[l].pc # "handler"

\* asyncio runs ready tasks in the order they became ready: a listener task
\* just created runs before any coroutine that suspends after the creation
\* resumes.  A caller may run while it is ahead of every pending task.
CallerMayRun(c) == \A l \in Pending : c \in listeners[l].aheadC
ListenerMayRun(y) == \A l \in Pending \ {y} : y \in listeners[l].aheadL

\* Whether a caller's call stands at an await.
Suspended(t) == t.pc \notin {"idle", "done"}

\* The listeners after a step that left the callers as in `tk` and in which
\* listener y (0: none) ran: whoever suspended is behind the pending tasks.
Requeue(ls, tk, y) ==
    [l \in DOMAIN ls |->
        IF ls[l].pc = "created"
        THEN [ls[l] EXCEPT !.aheadC = {c \in @ : ~Suspended(tk[c])},
                           !.aheadL = @ \ {y}]
        ELSE ls[l]]

\* ------------------------------------------------------- starting and ending

\* A caller whose last call has ended (its record stays until the next call
\* begins) may start one while the budget lasts.
CanStart(c) == task[c].pc \in {"idle", "done"} /\ opsLeft[c] > 0 /\ CallerMayRun(c)

\* The call `op` of caller c stands at the await `pc` and may go on.
CanResume(c, op, pc) == task[c].op = op /\ task[c].pc = pc /\ CallerMayRun(c)

\* The call of caller c ends with result r.
Done(c, r) == [task EXCEPT ![c].pc = "done", ![c].res = r]

\* -------------------------------------------------------------------- login

\* The error login raises for a response that is not ok: the members of
\* result["error"], with login's defaults; .get() on a body or an error
\* member that is no object raises AttributeError instead.
LoginError(r) ==
    IF r.body.kind # "obj" \/ r.body.err.kind = "nonobj"
    THEN Raise("AttributeError")
    ELSE ApiError(r.status,
                  FieldOr(r.body.err.message, "Authentication failed"),
                  FieldOr(r.body.err.code, "AUTH_ERROR"))

\* Whether login stores the tokens of the exchange o.
LoginStores(o) == o.kind = "resp" /\ Ok(o) /\ o.body.kind = "obj"

\* What login ends with for the exchange o.
LoginResult(o) ==
    IF o.kind = "fail" THEN Raise("ClientError")
    ELSE IF ~Ok(o) THEN LoginError(o)
    ELSE IF o.body.kind # "obj" THEN Raise("AttributeError")
    ELSE ReturnBody(o.body)

\* login() up to `async with session.post(url, json=data)`: one request,
\* sent by a fresh ClientSession that carries no Authorization header.
LoginStart(c) ==
    /\ CanStart(c)
    /\ task' = [task EXCEPT ![c] =
                  [Enter("login") EXCEPT !.pc = "wait", !.nSend = 1, !.sent = <<Absent>>]]
    /\ opsLeft' = [opsLeft EXCEPT ![c] = @ - 1]
    /\ listeners' = Requeue(listeners, task', 0)
    /\ UNCHANGED <<sessionVars, wireVars>>

\* login() from the response on.
LoginRecv(c, o) ==
    /\ CanResume(c, "login", "wait")
    /\ IF LoginStores(o)
       THEN /\ token' = o.body.token
            /\ refresh' = o.body.refreshToken
            /\ headers' = DictSet(headers, "Authorization", Bearer(o.body.token))
            /\ tokenFile' = SaveTokens(o.body.token, o.body.refreshToken, tokenFile)
       ELSE UNCHANGED sessionVars
    /\ task' = [Done(c, LoginResult(o)) EXCEPT ![c].cur = o]
    /\ listeners' = Requeue(listeners, task', 0)
    /\ UNCHANGED <<wireVars, opsLeft>>

\* ------------------------------------------------------------ refresh_token

\* Whether refresh_token takes the exchange o as a success: a response that
\* is ok whose body is an object (result.get raising is caught like any
\* other exception).
RefreshSucceeds(o) == o.kind = "resp" /\ Ok(o) /\ o.body.kind = "obj"

\* The access token refresh_token stores after a successful exchange.
RefreshedToken(o) == o.body.token

\* RefreshedHeaders with the header left as it was.
RefreshedHeadersStale(h, o) == h

\* The header refresh_token sets after a successful exchange.
RefreshedHeaders(h, o) == DictSet(h, "Authorization", Bearer(RefreshedToken(o)))

\* RefreshEffect with the refresh token replaced by the one of the body.
RefreshEffectRotates(o) ==
    IF RefreshSucceeds(o)
    THEN /\ token' = RefreshedToken(o)
         /\ headers' = RefreshedHeaders(headers, o)
         /\ tokenFile' = SaveTokens(RefreshedToken(o), refresh, tokenFile)
         /\ refresh' = o.body.refreshToken
    ELSE UNCHANGED sessionVars

\* RefreshEffect with the credentials cleared when the exchange failed.
RefreshEffectClearsOnFailure(o) ==
    IF RefreshSucceeds(o)
    THEN /\ token' = RefreshedToken(o)
         /\ headers' = RefreshedHeaders(headers, o)
         /\ tokenFile' = SaveTokens(RefreshedToken(o), refresh, tokenFile)
         /\ UNCHANGED refresh
    ELSE /\ token' = None
         /\ refresh' = None
         /\ headers' = DictPop(headers, "Authorization")
         /\ UNCHANGED tokenFile

\* The session after refresh_token handled the exchange o.
RefreshEffect(o) ==
    IF RefreshSucceeds(o)
    THEN /\ token' = RefreshedToken(o)
         /\ headers' = RefreshedHeaders(headers, o)
         /\ tokenFile' = SaveTokens(RefreshedToken(o), refresh, tokenFile)
         /\ UNCHANGED refresh
    ELSE UNCHANGED sessionVars

\* RefreshCallsServer without the test of the refresh token.
RefreshCallsServerAlways(rt) == TRUE

\* Whether refresh_token goes to the server at all.
RefreshCallsServer(rt) == Truthy(rt)

\* refresh_token() up to its request; without a refresh token it returns
\* False at once.
RefreshStart(c) ==
    /\ CanStart(c)
    /\ task' = [task EXCEPT ![c] =
                  IF RefreshCallsServer(refresh)
                  THEN [Enter("refresh") EXCEPT !.pc = "wait", !.nSend = 1, !.sent = <<Absent>>]
                  ELSE [Enter("refresh") EXCEPT !.pc = "done", !.res = Return("False")]]
    /\ opsLeft' = [opsLeft EXCEPT ![c] = @ - 1]
    /\ listeners' = Requeue(listeners, task', 0)
    /\ UNCHANGED <<sessionVars, wireVars>>

\* refresh_token() from the response on.
RefreshRecv(c, o) ==
    /\ CanResume(c, "refresh", "wait")
    /\ RefreshEffect(o)
    /\ task' = [Done(c, IF RefreshSucceeds(o) THEN Return("True") ELSE Return("False"))
                  EXCEPT ![c].cur = o,
                         ![c].refreshed = IF RefreshSucceeds(o) THEN "ok" ELSE "failed"]
    /\ listeners' = Requeue(listeners, task', 0)
    /\ UNCHANGED <<wireVars, opsLeft>>

\* ------------------------------------------------------------------- logout

\* Whether logout goes to the server at all.
LogoutCallsServer(rt) == Truthy(rt)

\* What logout returns after its exchange o, when removing the token file
\* went as `rm` says.
LogoutReturn(o, rm) ==
    IF o.kind = "fail" \/ rm = "raises" THEN Return("False")
    ELSE IF Ok(o) THEN Return("True") ELSE Return("False")

\* logout() up to its request; without a refresh token it returns True at
\* once.
LogoutStart(c) ==
    /\ CanStart(c)
    /\ task' = [task EXCEPT ![c] =
                  IF LogoutCallsServer(refresh)
                  THEN [Enter("logout") EXCEPT !.pc = "wait", !.nSend = 1,
                                               !.sent = <<AuthOf(headers)>>]
                  ELSE [Enter("logout") EXCEPT !.pc = "done", !.res = Return("True")]]
    /\ opsLeft' = [opsLeft EXCEPT ![c] = @ - 1]
    /\ listeners' = Requeue(listeners, task', 0)
    /\ UNCHANGED <<sessionVars, wireVars>>

\* LogoutRecv with the stream connection dropped along with the tokens.
LogoutRecvDropsStream(c, o, rm) ==
    /\ CanResume(c, "logout", "wait")
    /\ rm = "raises" => o.kind = "resp" /\ tokenFile.kind # "absent"
    /\ token' = None
    /\ refresh' = None
    /\ headers' = DictPop(headers, "Authorization")
    /\ tokenFile' = IF o.kind = "resp" /\ rm = "ok" THEN NoFile ELSE tokenFile
    /\ task' = [Done(c, LogoutReturn(o, rm)) EXCEPT ![c].cur = o]
    /\ listeners' = Requeue(listeners, task', 0)
    /\ wsConnection' = 0
    /\ UNCHANGED <<wsCallbacks, conns, framesLeft, connectCalls, regOrder, opsLeft>>

\* logout() from the response on: both the response branch and the except
\* branch clear the tokens and the header; the response branch also removes
\* the token file, and os.remove raising sends it to the except branch.
LogoutRecv(c, o, rm) ==
    /\ CanResume(c, "logout", "wait")
    /\ rm = "raises" => o.kind = "resp" /\ tokenFile.kind # "absent"
    /\ token' = None
    /\ refresh' = None
    /\ headers' = DictPop(headers, "Authorization")
    /\ tokenFile' = IF o.kind = "resp" /\ rm = "ok" THEN NoFile ELSE tokenFile
    /\ task' = [Done(c, LogoutReturn(o, rm)) EXCEPT ![c].cur = o]
    /\ listeners' = Requeue(listeners, task', 0)
    /\ UNCHANGED <<wireVars, opsLeft>>

\* ----------------------------------------------------------------- _request

\* The error _request raises for a response that is not ok.
RequestError(r) ==
    IF r.body.kind # "obj" \/ r.body.err.kind = "nonobj"
    THEN Raise("AttributeError")
    ELSE ApiError(r.status,
                  FieldOr(r.body.err.message, "Request failed"),
                  FieldOr(r.body.err.code, "API_ERROR"))

\* RequestResult with the success branch returning nothing.
RequestResultDropsBody(r) == IF ~Ok(r) THEN RequestError(r) ELSE Return("None")

\* What _request ends with for a response it does not recover from.
RequestResult(r) == IF ~Ok(r) THEN RequestError(r) ELSE ReturnBody(r.body)

\* RetryAllowed with the retry_auth test left out.
RetryAllowedIgnoringFlag(r, retryAuth, rt) == r.status = 401 /\ Truthy(rt)

\* response.status == 401 and retry_auth and self._refresh_token
RetryAllowed(r, retryAuth, rt) == r.status = 401 /\ retryAuth /\ Truthy(rt)

\* RequestFailed with the failure swallowed: the call returns None.
RequestFailedSwallowed == Return("None")

\* What _request hands its caller when the request or the decoding of the
\* body raised: nothing catches the aiohttp error, it leaves the call.
RequestFailed == Raise("ClientError")

\* _request(method, endpoint, data) up to its request, which carries the
\* headers of the session as they are now.
RequestStart(c) ==
    /\ CanStart(c)
    /\ task' = [task EXCEPT ![c] =
                  [Enter("execute") EXCEPT !.pc = "req", !.retryAuth = TRUE, !.nSend = 1,
                                            !.sent = <<AuthOf(headers)>>]]
    /\ opsLeft' = [opsLeft EXCEPT ![c] = @ - 1]
    /\ listeners' = Requeue(listeners, task', 0)
    /\ UNCHANGED <<sessionVars, wireVars>>

\* _request from the response on: an unauthorized response with retry
\* allowed calls refresh_token(), which sends its request at once (the
\* refresh token was just seen to be set); anything else ends the call.
RequestRecv(c, o) ==
    /\ CanResume(c, "execute", "req")
    /\ task' =
         IF o.kind = "fail"
         THEN [Done(c, RequestFailed) EXCEPT ![c].cur = o,
                        ![c].resp1 = IF task[c].nSend = 1 THEN o ELSE @]
         ELSE IF RetryAllowed(o, task[c].retryAuth, refresh)
         THEN [task EXCEPT ![c].pc = "refreshing", ![c].cur = o,
                           ![c].nRefresh = @ + 1,
                           ![c].resp1 = IF task[c].nSend = 1 THEN o ELSE @]
         ELSE [Done(c, RequestResult(o)) EXCEPT ![c].cur = o,
                        ![c].resp1 = IF task[c].nSend = 1 THEN o ELSE @]
    /\ listeners' = Requeue(listeners, task', 0)
    /\ UNCHANGED <<sessionVars, wireVars, opsLeft>>

\* _request from the end of its refresh_token() on: after a successful
\* refresh the request is sent again with retry_auth False and the headers
\* of the session as they are now; after a failed one the response held is
\* handled as any other.
RequestRefreshed(c, o) ==
    /\ CanResume(c, "execute", "refreshing")
    /\ RefreshEffect(o)
    /\ task' =
         IF RefreshSucceeds(o)
         THEN [task EXCEPT ![c].pc = "req", ![c].retryAuth = FALSE,
                           ![c].nSend = @ + 1, ![c].refreshed = "ok",
                           ![c].sent = Append(@, AuthOf(headers'))]
         ELSE [Done(c, RequestResult(task[c].cur)) EXCEPT ![c].refreshed = "failed"]
    /\ listeners' = Requeue(listeners, task', 0)
    /\ UNCHANGED <<wireVars, opsLeft>>

\* ------------------------------------------------------ the WebSocket side

RECURSIVE RunHandlers(_, _, _, _)
\* RunHandlers with a raised exception ending the loop over the handlers.
RunHandlersStopsOnRaise(hs, i, d, log) ==
    IF i > Len(hs) THEN [idx |-> i, awaiting |-> FALSE, invoked |-> log]
    ELSE IF IsCoroutine(hs[i])
    THEN [idx |-> i, awaiting |-> TRUE, invoked |-> Append(log, <<hs[i], d>>)]
    ELSE IF Raises(hs[i])
    THEN [idx |-> Len(hs) + 1, awaiting |-> FALSE, invoked |-> Append(log, <<hs[i], d>>)]
    ELSE RunHandlers(hs, i + 1, d, Append(log, <<hs[i], d>>))

\* The run of _process_event from position i of the handler list hs on:
\* plain callbacks are called one after the other, a raised exception is
\* logged and the loop goes on; a coroutine callback is called and awaited,
\* which suspends the listener.  Yields the position reached, whether the
\* listener is suspended there, and the calls made.
RunHandlers(hs, i, d, log) ==
    IF i > Len(hs) THEN [idx |-> i, awaiting |-> FALSE, invoked |-> log]
    ELSE IF IsCoroutine(hs[i])
    THEN [idx |-> i, awaiting |-> TRUE, invoked |-> Append(log, <<hs[i], d>>)]
    ELSE RunHandlers(hs, i + 1, d, Append(log, <<hs[i], d>>))

\* Dispatches with the reserved event dispatched like any other.
DispatchesReserved(f) == f.kind = "obj"

\* Whether the listener dispatches the frame f at all.
Dispatches(f) == f.kind = "obj" /\ f.event # Established

\* AfterRun with a coroutine callback called and not awaited: the listener
\* goes back to its stream while the callback runs.
AfterRunNotAwaiting(lr, hs, i) ==
    LET r == RunHandlers(hs, i, lr.data, lr.invoked) IN
    [lr EXCEPT !.pc = "recv",
               !.idx = r.idx, !.invoked = r.invoked,
               !.raised = @ + Cardinality({k \in (Len(lr.invoked) + 1)..Len(r.invoked) :
                                              Raises(r.invoked[k][1])})]

\* The listener record after its dispatch ran from position i on.
AfterRun(lr, hs, i) ==
    LET r == RunHandlers(hs, i, lr.data, lr.invoked) IN
    [lr EXCEPT !.pc = IF r.awaiting THEN "handler" ELSE "recv",
               !.idx = r.idx, !.invoked = r.invoked,
               !.raised = @ + Cardinality({k \in (Len(lr.invoked) + 1)..Len(r.invoked) :
                                              Raises(r.invoked[k][1])})]

\* The listener record with what the application registered, up to now,
\* for the event type of the envelope it works on.
Seen(lr) ==
    [lr EXCEPT !.regs = IF lr.ev \in DOMAIN regOrder THEN regOrder[lr.ev] ELSE <<>>]

\* Whether some close_websocket() call waits for close() of connection k:
\* the closing handshake runs, and the stream ends for whoever reads it.
Closing(k) ==
    \E c \in Callers : task[c].op = "close" /\ task[c].pc = "closing" /\ task[c].conn = k

\* ------------------------------------------------------- connect_websocket

\* ConnectAllowed without the test of the access token.
ConnectAllowedAlways(tok) == TRUE

\* Whether connect_websocket goes to the transport.
ConnectAllowed(tok) == Truthy(tok)

\* connect_websocket() up to `await websockets.connect(...)`; without an
\* access token it raises ValueError at once.
ConnectStart(c) ==
    /\ CanStart(c)
    /\ task' = [task EXCEPT ![c] =
                  IF ConnectAllowed(token)
                  THEN [Enter("connect") EXCEPT !.pc = "connecting", !.nConnect = 1,
                           !.sent = <<AuthOf(headers)>>, !.conn = wsConnection]
                  ELSE [Enter("connect") EXCEPT !.pc = "done", !.res = Raise("ValueError"),
                           !.conn = wsConnection]]
    /\ connectCalls' = IF ConnectAllowed(token) THEN connectCalls + 1 ELSE connectCalls
    /\ listeners' = Requeue(listeners, task', 0)
    /\ opsLeft' = [opsLeft EXCEPT ![c] = @ - 1]
    /\ UNCHANGED <<sessionVars, wsConnection, wsCallbacks, conns, framesLeft, regOrder>>

\* The connection connect_websocket stores: the one websockets.connect just
\* returned, a new object.
StoredConnection(cs) == Len(cs) + 1

\* ConnectFailed with the failure swallowed.
ConnectFailedSilently == Return("None")

\* What connect_websocket ends with when websockets.connect raised.
ConnectFailed == Raise("ConnectionError")

\* connect_websocket() from the end of websockets.connect on: the connection
\* is stored and the listener task created, or ConnectionError is raised.
ConnectDone(c, ok) ==
    /\ CanResume(c, "connect", "connecting")
    /\ IF ok
       THEN /\ conns' = Append(conns, NewConn)
            /\ wsConnection' = StoredConnection(conns)
            /\ task' = Done(c, Return("None"))
            /\ listeners' =
                 Append(Requeue(listeners, task', 0),
                        NewListener(Callers,
                                    {l \in Listeners : listeners[l].pc # "ended"}))
       ELSE /\ task' = Done(c, ConnectFailed)
            /\ listeners' = Requeue(listeners, task', 0)
            /\ UNCHANGED <<conns, wsConnection>>
    /\ UNCHANGED <<sessionVars, wsCallbacks, framesLeft, connectCalls, regOrder, opsLeft>>

\* ------------------------------------------------------------ _ws_listener

\* The first run of a listener task: it returns if the client holds no
\* connection, else it starts iterating the connection the client holds now.
ListenerStart(l) ==
    /\ l \in Listeners
    /\ listeners[l].pc = "created" /\ ListenerMayRun(l)
    /\ listeners' =
         Requeue([listeners EXCEPT ![l].pc = IF wsConnection = 0 THEN "ended" ELSE "recv",
                                   ![l].reads = wsConnection],
                 task, l)
    /\ UNCHANGED <<sessionVars, task, opsLeft, wsConnection, wsCallbacks, conns,
                   framesLeft, connectCalls, regOrder>>

\* OnFrame with an undecodable frame ending the loop.
OnFrameStopsOnBadFrame(lr, f, cbs) ==
    IF f.kind # "obj"
    THEN [lr EXCEPT !.frame = f, !.ev = Absent, !.data = Absent, !.idx = 0,
                    !.invoked = <<>>, !.regs = <<>>, !.skipped = @ + 1, !.pc = "ended"]
    ELSE IF ~Dispatches(f)
    THEN [lr EXCEPT !.frame = f, !.ev = f.event, !.data = PayloadOf(f), !.idx = 0,
                    !.invoked = <<>>]
    ELSE AfterRun([lr EXCEPT !.frame = f, !.ev = f.event, !.data = PayloadOf(f),
                             !.invoked = <<>>],
                  Registered(cbs, f.event), 1)

\* The listener record after frame f arrived: text that does not decode and
\* JSON that is no object are logged and dropped, the reserved event is
\* consumed, every other envelope is dispatched.
OnFrame(lr, f, cbs) ==
    IF f.kind # "obj"
    THEN [lr EXCEPT !.frame = f, !.ev = Absent, !.data = Absent, !.idx = 0,
                    !.invoked = <<>>, !.regs = <<>>, !.skipped = @ + 1]
    ELSE IF ~Dispatches(f)
    THEN [lr EXCEPT !.frame = f, !.ev = f.event, !.data = PayloadOf(f), !.idx = 0,
                    !.invoked = <<>>]
    ELSE AfterRun([lr EXCEPT !.frame = f, !.ev = f.event, !.data = PayloadOf(f),
                             !.invoked = <<>>],
                  Registered(cbs, f.event), 1)

\* Readable with frames coming out of a stream that has ended.
ReadableAlways(k) == TRUE

\* Whether `async for message in connection` can yield a frame of
\* connection k: only while its stream is open.
Readable(k) == conns[k].open

\* One inbound frame reaches a listener waiting on an open connection.
ListenerRecv(l, f) ==
    /\ l \in Listeners
    /\ listeners[l].pc = "recv" /\ ListenerMayRun(l)
    /\ Readable(listeners[l].reads)
    /\ framesLeft > 0
    /\ framesLeft' = framesLeft - 1
    /\ listeners' =
         Requeue([listeners EXCEPT ![l] = Seen(OnFrame(@, f, wsCallbacks))], task, l)
    /\ UNCHANGED <<sessionVars, task, opsLeft, wsConnection, wsCallbacks, conns,
                   connectCalls, regOrder>>

\* The coroutine callback a listener awaits ends, by returning or raising
\* (the exception is logged): the loop over the handler list, as it is now,
\* goes on.
HandlerDone(l) ==
    /\ l \in Listeners
    /\ listeners[l].pc = "handler" /\ ListenerMayRun(l)
    /\ listeners' =
         Requeue([listeners EXCEPT ![l] =
                    Seen(AfterRun(@, Registered(wsCallbacks, @.ev), @.idx + 1))],
                 task, l)
    /\ UNCHANGED <<sessionVars, task, opsLeft, wsConnection, wsCallbacks, conns,
                   framesLeft, connectCalls, regOrder>>

\* The server ends an open stream.
ServerClose(k) ==
    /\ k \in 1..Len(conns) /\ conns[k].open
    /\ conns' = [conns EXCEPT ![k].open = FALSE]
    /\ UNCHANGED <<sessionVars, task, opsLeft, wsConnection, wsCallbacks, listeners,
                   framesLeft, connectCalls, regOrder>>

\* A listener waiting on a stream that has ended, or that the client is
\* closing, leaves its loop; its finally clause clears the client's
\* connection.
ListenerExit(l) ==
    /\ l \in Listeners
    /\ listeners[l].pc = "recv" /\ ListenerMayRun(l)
    /\ ~conns[listeners[l].reads].open \/ Closing(listeners[l].reads)
    /\ wsConnection' = 0
    /\ listeners' = Requeue([listeners EXCEPT ![l].pc = "ended"], task, l)
    /\ UNCHANGED <<sessionVars, task, opsLeft, wsCallbacks, conns, framesLeft,
                   connectCalls, regOrder>>

\* ----------------------------------------------------------------- on_event

\* Register with the new handler put in front of the list.
RegisterPrepending(cbs, e, h) ==
    [x \in (DOMAIN cbs) \cup {e} |-> IF x = e THEN <<h>> \o Registered(cbs, e) ELSE cbs[x]]

\* Register with the new handler taking the place of the list.
RegisterReplacing(cbs, e, h) ==
    [x \in (DOMAIN cbs) \cup {e} |-> IF x = e THEN <<h>> ELSE cbs[x]]

\* self._ws_callbacks after on_event(e, h)
Register(cbs, e, h) ==
    [x \in (DOMAIN cbs) \cup {e} |-> IF x = e THEN Append(Registered(cbs, e), h) ELSE cbs[x]]

\* on_event(e, h): no await in it.
OnEvent(c, e, h) ==
    /\ CanStart(c)
    /\ wsCallbacks' = Register(wsCallbacks, e, h)
    /\ regOrder' = [regOrder EXCEPT ![e] = Append(@, h)]
    /\ task' = [task EXCEPT ![c] = [Enter("on") EXCEPT !.pc = "done", !.res = Return("None")]]
    /\ opsLeft' = [opsLeft EXCEPT ![c] = @ - 1]
    /\ UNCHANGED <<sessionVars, wsConnection, conns, listeners, framesLeft, connectCalls>>

\* ------------------------------------------------------------ send_ws_event

\* WsMessage with the payload left out.
WsMessageWithoutPayload(e, p) == <<e, "{}">>

\* json.dumps({"event": event, "payload": payload})
WsMessage(e, p) == <<e, p>>

\* send_ws_event(event, payload): without a connection it raises
\* ConnectionError; else one frame {event, payload} is written, and the
\* transport raises ConnectionClosed if the stream has ended or is closing.
SendEvent(c, e) ==
    /\ CanStart(c)
    /\ IF wsConnection = 0
       THEN /\ task' = [task EXCEPT ![c] =
                          [Enter("send") EXCEPT !.pc = "done", !.res = Raise("ConnectionError")]]
            /\ UNCHANGED conns
       ELSE IF conns[wsConnection].open /\ ~Closing(wsConnection)
       THEN /\ task' = [task EXCEPT ![c] =
                          [Enter("send") EXCEPT !.pc = "done", !.res = Return("None"),
                                                !.nWrite = 1, !.conn = wsConnection]]
            /\ conns' = [conns EXCEPT ![wsConnection].out = Append(@, WsMessage(e, "payload"))]
       ELSE /\ task' = [task EXCEPT ![c] =
                          [Enter("send") EXCEPT !.pc = "done", !.res = Raise("ConnectionClosed"),
                                                !.conn = wsConnection]]
            /\ UNCHANGED conns
    /\ opsLeft' = [opsLeft EXCEPT ![c] = @ - 1]
    /\ UNCHANGED <<sessionVars, wsConnection, wsCallbacks, listeners, framesLeft,
                   connectCalls, regOrder>>

\* ---------------------------------------------------------- close_websocket

\* CloseNeeded without the test of the connection.
CloseNeededAlways(ws) == TRUE

\* Whether close_websocket has anything to close.
CloseNeeded(ws) == ws # 0

\* close_websocket() up to `await self._ws_connection.close()`; without a
\* connection it returns at once.
CloseStart(c) ==
    /\ CanStart(c)
    /\ task' = [task EXCEPT ![c] =
                  IF CloseNeeded(wsConnection)
                  THEN [Enter("close") EXCEPT !.pc = "closing", !.conn = wsConnection]
                  ELSE [Enter("close") EXCEPT !.pc = "done", !.res = Return("None")]]
    /\ listeners' = Requeue(listeners, task', 0)
    /\ opsLeft' = [opsLeft EXCEPT ![c] = @ - 1]
    /\ UNCHANGED <<sessionVars, wsConnection, wsCallbacks, conns, framesLeft,
                   connectCalls, regOrder>>

\* CloseDone with the stream left open.
CloseDoneKeepsStream(c) ==
    /\ CanResume(c, "close", "closing")
    /\ wsConnection' = 0
    /\ task' = Done(c, Return("None"))
    /\ UNCHANGED <<sessionVars, wsCallbacks, conns, listeners, framesLeft, connectCalls,
                   regOrder, opsLeft>>

\* close_websocket() from the end of close() on: the stream has ended and
\* the client's connection is cleared.
CloseDone(c) ==
    /\ CanResume(c, "close", "closing")
    /\ conns' = [conns EXCEPT ![task[c].conn].open = FALSE]
    /\ wsConnection' = 0
    /\ task' = Done(c, Return("None"))
    /\ UNCHANGED <<sessionVars, wsCallbacks, listeners, framesLeft, connectCalls,
                   regOrder, opsLeft>>

\* ------------------------------------------------------- the session alone

\* A client as constructed, with or without a token argument, finding any
\* of the token files; nothing connected, nothing registered; one caller.
Init ==
    /\ \E arg \in {None, "t1"}, file \in InitFiles : Construct(arg, file)
    /\ opsLeft = [c \in Callers |-> IF c = "c1" THEN MaxOps ELSE 0]
    /\ conns = <<>>
    /\ listeners = <<>>
    /\ framesLeft = 0
    /\ connectCalls = 0

Next ==
    \E c \in Callers :
        \/ LoginStart(c)
        \/ \E o \in LoginOutcomes : LoginRecv(c, o)
        \/ RefreshStart(c)
        \/ \E o \in RefreshOutcomes : RefreshRecv(c, o)
        \/ LogoutStart(c)
        \/ \E o \in LogoutOutcomes, rm \in {"ok", "raises"} : LogoutRecv(c, o, rm)
        \/ RequestStart(c)
        \/ \E o \in RequestOutcomes : RequestRecv(c, o)
        \/ \E o \in RefreshOutcomes : RequestRefreshed(c, o)

\* Login, refresh, logout and API calls made one after the other.
Spec == Init /\ [][Next]_vars


\* ------------------------------------------------ the connection life cycle

\* A client constructed without a token argument, that found no token file
\* (it holds no access token) or one with both tokens.
StreamInit ==
    /\ \E file \in {NoFile, [kind |-> "json", token |-> "t1", refreshToken |-> "r1"]} :
          Construct(None, file)
    /\ opsLeft = [c \in Callers |-> IF c = "c1" THEN MaxStreamOps ELSE 0]
    /\ conns = <<>>
    /\ listeners = <<>>
    /\ framesLeft = 0
    /\ connectCalls = 0

StreamNext ==
    \/ \E c \in Callers :
        \/ ConnectStart(c)
        \/ \E ok \in BOOLEAN : ConnectDone(c, ok)
        \/ SendEvent(c, "typing")
        \/ CloseStart(c)
        \/ CloseDone(c)
        \/ LogoutStart(c)
        \/ LogoutRecv(c, Resp(200, NoBody), "ok")
    \/ \E l \in 1..MaxStreamOps :
        \/ ListenerStart(l)
        \/ ListenerExit(l)
    \/ \E k \in 1..MaxStreamOps : ServerClose(k)

\* connect, send, close and logout calls of one caller, the listener tasks
\* they create, and a server that ends streams.
StreamSpec == StreamInit /\ [][StreamNext]_vars

\* ------------------------------------------------ registration and dispatch

\* The record of a connect_websocket() call that succeeded for a client
\* holding the tokens of its token file.
ConnectedTask ==
    [IdleTask EXCEPT !.op = "connect", !.pc = "done", !.res = Return("None"),
                     !.nConnect = 1, !.sent = <<Bearer("t1")>>,
                     !.pre = [token |-> "t1", refresh |-> "r1", auth |-> Bearer("t1")]]

\* A client that loaded both tokens from its token file and connected; its
\* listener task waits for the first frame; nothing is registered.
JustConnected ==
    /\ token = "t1"
    /\ refresh = "r1"
    /\ headers = InitHeaders("t1")
    /\ tokenFile = [kind |-> "json", token |-> "t1", refreshToken |-> "r1"]
    /\ wsConnection = 1
    /\ wsCallbacks = <<>>
    /\ regOrder = [e \in EventTypes |-> <<>>]
    /\ task = [c \in Callers |-> IF c = "c1" THEN ConnectedTask ELSE IdleTask]
    /\ conns = <<NewConn>>
    /\ listeners = <<[NewListener(Callers, {}) EXCEPT !.pc = "recv", !.reads = 1]>>
    /\ connectCalls = 1

DispatchInit ==
    /\ JustConnected
    /\ opsLeft = [c \in Callers |-> IF c = "c1" THEN MaxRegs ELSE 0]
    /\ framesLeft = MaxFrames

DispatchNext ==
    \/ \E c \in Callers, e \in EventTypes, h \in Handlers : OnEvent(c, e, h)
    \/ \E f \in Frames : ListenerRecv(1, f)
    \/ HandlerDone(1)
    \/ ServerClose(1)
    \/ ListenerExit(1)

\* on_event calls of one caller on a connected client, a server that sends
\* frames and ends the stream, and the listener task that dispatches them.
DispatchSpec == DispatchInit /\ [][DispatchNext]_vars

\* The same with the event loop running a listener that can leave its loop,
\* and every coroutine callback that was called coming to its end.
DispatchLive ==
    DispatchSpec /\ WF_vars(ListenerExit(1)) /\ WF_vars(HandlerDone(1))

\* ------------------------------------------------- closing while dispatching

ShutdownNext ==
    \/ \E c \in Callers :
        \/ \E h \in Handlers : OnEvent(c, "message", h)
        \/ CloseStart(c)
        \/ CloseDone(c)
    \/ \E f \in {BadFrame, Envelope("message", "hi")} : ListenerRecv(1, f)
    \/ HandlerDone(1)
    \/ ServerClose(1)
    \/ ListenerExit(1)

\* on_event and close_websocket calls of one caller on a connected client
\* whose listener task dispatches the frames the server sends.
ShutdownSpec == DispatchInit /\ [][ShutdownNext]_vars

\* The same with the event loop running the listener, every coroutine
\* callback that was called coming to its end, and the closing handshake of
\* the transport coming to its end.
ShutdownLive ==
    /\ ShutdownSpec
    /\ WF_vars(ListenerExit(1))
    /\ WF_vars(HandlerDone(1))
    /\ WF_vars(\E c \in Callers : CloseDone(c))

\* ------------------------------------------- API calls beside the listener

ClientInit ==
    /\ JustConnected
    /\ opsLeft = [c \in Callers |-> IF c = "c1" THEN MaxClientOps ELSE 0]
    /\ framesLeft = MaxClientFrames

\* The exchanges of an API call taken up beside the listener: a transport
\* failure, an unauthorized response, a success; and those of its refresh:
\* a transport failure, a success with and without a token.
ClientRequestOutcomes ==
    {TransportFail, Resp(401, ObjBody(None, None, NoErr, Absent)),
     Resp(200, ObjBody(None, None, NoErr, "payload"))}
ClientRefreshOutcomes ==
    {TransportFail} \cup {Resp(200, ObjBody(t, None, NoErr, Absent)) : t \in {"t3", None}}

\* The exchanges of a login taken up beside other calls: a rejection and a success.
SharedLoginOutcomes ==
    {Resp(401, ObjBody(None, None, NoErr, Absent)), Resp(200, ObjBody("t2", "r2", NoErr, "user"))}

ClientNext ==
    \/ \E c \in Callers :
        \/ RequestStart(c)
        \/ \E o \in ClientRequestOutcomes : RequestRecv(c, o)
        \/ \E o \in ClientRefreshOutcomes : RequestRefreshed(c, o)
        \/ LogoutStart(c)
        \/ LogoutRecv(c, Resp(200, NoBody), "ok")
        \/ LoginStart(c)
        \/ \E o \in SharedLoginOutcomes : LoginRecv(c, o)
        \/ RefreshStart(c)
        \/ \E o \in ClientRefreshOutcomes : RefreshRecv(c, o)
        \/ ConnectStart(c)
        \/ \E ok \in BOOLEAN : ConnectDone(c, ok)
        \/ SendEvent(c, "typing")
        \/ \E e \in EventTypes, h \in {"hSync", "hAsync"} : OnEvent(c, e, h)
        \/ CloseStart(c)
        \/ CloseDone(c)
    \/ \E l \in 1..(MaxClientOps + 1) :
        \/ ListenerStart(l)
        \/ ListenerRecv(l, Envelope("message", "hi"))
        \/ HandlerDone(l)
        \/ ListenerExit(l)
    \/ \E k \in 1..(MaxClientOps + 1) : ServerClose(k)

\* Every call of the public surface made by one caller of a connected
\* client, in any order, beside the listener tasks and the server.
ClientSpec == ClientInit /\ [][ClientNext]_vars

\* ------------------------------------------------ calls made side by side

SharedInit ==
    /\ Construct(None, [kind |-> "json", token |-> "t1", refreshToken |-> "r1"])
    /\ opsLeft = [c \in Callers |-> MaxSharedOps]
    /\ conns = <<>>
    /\ listeners = <<>>
    /\ framesLeft = 0
    /\ connectCalls = 0

SharedNext ==
    \E c \in Callers :
        \/ LoginStart(c)
        \/ \E o \in SharedLoginOutcomes : LoginRecv(c, o)
        \/ RefreshStart(c)
        \/ \E o \in ClientRefreshOutcomes : RefreshRecv(c, o)
        \/ LogoutStart(c)
        \/ \E o \in {TransportFail, Resp(200, NoBody)} : LogoutRecv(c, o, "ok")
        \/ RequestStart(c)
        \/ \E o \in ClientRequestOutcomes : RequestRecv(c, o)
        \/ \E o \in ClientRefreshOutcomes : RequestRefreshed(c, o)

\* Login, refresh, logout and API calls of two coroutines of the
\* application that share the client: each call runs up to its next await,
\* and the calls of the two interleave there.
SharedSpec == SharedInit /\ [][SharedNext]_vars

\* ------------------------------------------------------------------ claims

\* The session holds no credentials at all.
Cleared == token = None /\ refresh = None /\ "Authorization" \notin DOMAIN headers

\* C1: once logout() has returned, the session holds no access token, no
\* refresh token and no Authorization header, from every starting state
\* (an access token without a refresh token included) and whether the
\* server call succeeded, failed or was never made.
C1_LogoutClears ==
    \A c \in Callers :
        task[c].op = "logout" /\ task[c].pc = "done" => Cleared

\* C2: when execute() gets an unauthorized response, the refresh succeeds
\* and the request sent again gets a success response, execute() returns
\* the decoded body of that second response and raises nothing.
C2_RetriedSuccessReturned ==
    \A c \in Callers :
        (/\ task[c].op = "execute" /\ task[c].pc = "done"
         /\ task[c].resp1.status = 401
         /\ task[c].refreshed = "ok"
         /\ task[c].cur.kind = "resp" /\ Ok(task[c].cur))
        => /\ task[c].res = ReturnBody(task[c].cur.body)
           /\ task[c].nSend = 2

\* An execute() that was refused, refreshed, asked again and returned.
C2_Witness ==
    \E c \in Callers :
        /\ task[c].op = "execute" /\ task[c].pc = "done"
        /\ task[c].resp1.status = 401 /\ task[c].refreshed = "ok"
        /\ task[c].nSend = 2 /\ task[c].nRefresh = 1
        /\ task[c].res.kind = "return" /\ task[c].res.body.data = "payload"

\* C3: whatever the backend answers, one execute() sends its request at
\* most twice and calls refresh at most once; the request sent again never
\* leads to another refresh or retry; and the call always ends: while it
\* waits, whatever the transport answers moves it on, and it ends by
\* returning or raising.
C3_AtMostOneRetry ==
    \A c \in Callers :
        task[c].op = "execute" =>
            /\ task[c].nSend \in {1, 2} /\ task[c].nRefresh \in {0, 1}
            /\ task[c].nSend = 2 =>
                  /\ ~task[c].retryAuth /\ task[c].nRefresh = 1
                  /\ task[c].pc \in {"req", "done"}
            /\ task[c].pc \in {"req", "refreshing", "done"}
            /\ task[c].pc = "req" =>
                  \A o \in RequestOutcomes : ENABLED RequestRecv(c, o)
            /\ task[c].pc = "refreshing" =>
                  \A o \in RefreshOutcomes : ENABLED RequestRefreshed(c, o)
            /\ task[c].pc = "done" => task[c].res.kind \in {"return", "raise"}

\* An execute() whose second request was refused as well: it ended by
\* raising, after two requests and one refresh.
C3_Witness ==
    \E c \in Callers :
        /\ task[c].op = "execute" /\ task[c].pc = "done"
        /\ task[c].nSend = 2 /\ task[c].nRefresh = 1
        /\ task[c].resp1.status = 401 /\ task[c].cur.status = 401
        /\ task[c].res.kind = "raise"

\* C4: when execute() gets an unauthorized response and the refresh it
\* starts fails, execute() raises an ApiError that carries the status, code
\* and message of that first response, and does not send the request again.
C4_OriginalUnauthorizedRaised ==
    \A c \in Callers :
        (task[c].op = "execute" /\ task[c].pc = "done" /\ task[c].refreshed = "failed")
        => /\ task[c].nSend = 1
           /\ task[c].res.exc = "ApiError"
           /\ task[c].res.status = task[c].resp1.status
           /\ task[c].res.code = FieldOr(task[c].resp1.body.err.code, "API_ERROR")
           /\ task[c].res.message = FieldOr(task[c].resp1.body.err.message, "Request failed")

\* The handlers called, and the arguments they got, in the order of the calls.
Called(lr) == [i \in 1..Len(lr.invoked) |-> lr.invoked[i][1]]
ArgsGiven(lr) == {lr.invoked[i][2] : i \in 1..Len(lr.invoked)}

\* The payload of an envelope as the frame carries it: its data member, an
\* empty object when it has none.
Carried(f) == IF f.data = Absent THEN "{}" ELSE f.data

\* The listener is through with the envelope it received last.
Through(lr) == lr.frame.kind = "obj" /\ lr.pc \in {"recv", "ended"}

\* The dispatch of the envelope received last, as far as it got, called the
\* handlers registered for its event type, in the order of the on() calls,
\* one call for each on() call, each with the payload the frame carries; all
\* of them once the listener is through with the envelope.
DispatchedInOrder(lr) ==
    /\ lr.pc = "handler" =>
          /\ lr.idx \in 1..Len(lr.regs)
          /\ Called(lr) = SubSeq(lr.regs, 1, lr.idx)
    /\ Through(lr) => Called(lr) = lr.regs
    /\ ArgsGiven(lr) \subseteq {Carried(lr.frame)}

\* C5 as stated, for every event type T, the reserved name included: one
\* well-formed frame with event T calls the handlers registered for T in
\* registration order, once per registration, each with the frame's data,
\* and no handler registered for another type.
C5_AnyTypeDispatched ==
    \A l \in Listeners :
        listeners[l].frame.kind = "obj" => DispatchedInOrder(listeners[l])

\* C5: for every event type T other than the reserved connection-established
\* name, one well-formed frame with event T calls the handlers registered
\* for T in registration order, once per registration (a handler registered
\* k times is called k times), each with the frame's data; handlers
\* registered for other types only are not called.
C5_DispatchInRegistrationOrder ==
    \A l \in Listeners :
        (listeners[l].frame.kind = "obj" /\ listeners[l].frame.event # Established)
            => DispatchedInOrder(listeners[l])

\* A "message" frame dispatched to two different handlers registered for it,
\* while a handler is registered for another type as well.
C5_Witness ==
    \E l \in Listeners :
        /\ listeners[l].frame = Envelope("message", "hi")
        /\ listeners[l].pc = "recv"
        /\ Len(listeners[l].invoked) = 2
        /\ listeners[l].invoked[1][1] # listeners[l].invoked[2][1]
        /\ listeners[l].invoked[2] = <<regOrder["message"][2], "hi">>
        /\ Len(regOrder[Established]) = 1

\* C6: a frame that does not decode is skipped: no handler is called for it
\* and the receive loop goes on (the listener waits for the next frame, takes
\* whatever frame comes, and leaves only when the stream has ended); every
\* envelope that arrives after it is still dispatched to all its handlers.
C6_MalformedFrameSkipped ==
    \A l \in Listeners :
        LET lr == listeners[l] IN
        /\ lr.frame.kind \in {"malformed", "nonobj"} =>
              /\ lr.invoked = <<>>
              /\ lr.pc \in {"recv", "ended"}
              /\ lr.pc = "ended" => ~conns[lr.reads].open
              /\ (lr.pc = "recv" /\ conns[lr.reads].open /\ framesLeft > 0) =>
                    \A f \in Frames : ENABLED ListenerRecv(l, f)
        /\ (lr.skipped > 0 /\ Through(lr) /\ Dispatches(lr.frame)) =>
              /\ Called(lr) = lr.regs
              /\ ArgsGiven(lr) \subseteq {Carried(lr.frame)}

\* After a frame that did not decode, a "message" frame was dispatched to the
\* handler registered for it, on a stream that is still open.
C6_Witness ==
    \E l \in Listeners :
        /\ listeners[l].skipped = 1
        /\ listeners[l].frame = Envelope("message", "hi")
        /\ listeners[l].pc = "recv"
        /\ Len(listeners[l].invoked) >= 1
        /\ conns[listeners[l].reads].open

\* Caller c begins the call `op` in this step.
Calls(c, op) == opsLeft'[c] = opsLeft[c] - 1 /\ task'[c].op = op

\* C7: connect() called while no access token is set raises the
\* precondition error (ValueError) at once, makes no transport connect,
\* creates no listener task and leaves the client's connection, the
\* transport's connections and the listener tasks as they were.
C7_ConnectNeedsToken ==
    [][\A c \in Callers :
        (Calls(c, "connect") /\ token = None) =>
            /\ task'[c].pc = "done"
            /\ task'[c].res = Raise("ValueError")
            /\ task'[c].nConnect = 0
            /\ connectCalls' = connectCalls
            /\ wsConnection' = wsConnection
            /\ conns' = conns
            /\ listeners' = listeners]_vars

\* A connect() refused for want of a token while the client still holds the
\* open connection of an earlier connect (the token was cleared by logout).
C7_Witness ==
    \E c \in Callers :
        /\ task[c].op = "connect" /\ task[c].pc = "done"
        /\ task[c].res = Raise("ValueError")
        /\ token = None
        /\ wsConnection # 0 /\ conns[wsConnection].open
        /\ connectCalls = 1

\* C8: close() on a client that holds no connection (never connected, or
\* closed before) returns at once, raises nothing and changes nothing; and
\* every close() that returns, returns None and leaves the client without a
\* connection, the stream it held closed.
C8_CloseIdempotent ==
    [][\A c \in Callers :
        /\ (Calls(c, "close") /\ wsConnection = 0) =>
              /\ task'[c].pc = "done"
              /\ task'[c].res = Return("None")
              /\ UNCHANGED <<sessionVars, wireVars, listeners>>
        /\ ((Calls(c, "close") \/ task[c].pc = "closing") /\ task'[c].pc = "done") =>
              /\ task'[c].res = Return("None")
              /\ wsConnection' = 0
              /\ task'[c].conn # 0 => ~conns'[task'[c].conn].open]_vars

\* A close() that found nothing to close, on a client whose one connection
\* was closed by the close() before it.
C8_Witness ==
    \E c \in Callers :
        /\ task[c].op = "close" /\ task[c].pc = "done" /\ task[c].conn = 0
        /\ task[c].res = Return("None")
        /\ opsLeft[c] = MaxStreamOps - 3
        /\ connectCalls = 1 /\ Len(conns) = 1 /\ ~conns[1].open
        /\ wsConnection = 0
        /\ \A l \in Listeners : listeners[l].pc = "recv"

\* C9: in every state the Authorization header is there exactly when an
\* access token is set, and it is "Bearer " followed by that token.
C9_HeaderMatchesToken ==
    /\ "Authorization" \in DOMAIN headers <=> token # None
    /\ "Authorization" \in DOMAIN headers => headers["Authorization"] = "Bearer " \o token

\* C10: a login() the backend rejects raises an error that carries the
\* status and the message of the response, sends one request, and leaves
\* the access token, the refresh token and the header as they were.
C10_RejectedLogin ==
    \A c \in Callers :
        (/\ task[c].op = "login" /\ task[c].pc = "done"
         /\ task[c].cur.kind = "resp" /\ ~Ok(task[c].cur))
        => /\ task[c].res.kind = "raise"
           /\ task[c].res.status = task[c].cur.status
           /\ task[c].cur.body.err.message # Absent =>
                 task[c].res.message = task[c].cur.body.err.message
           /\ task[c].nSend = 1
           /\ Creds = task[c].pre

\* C11: refresh() called while no refresh token is stored returns False at
\* once: it raises nothing, sends no request and leaves the access token,
\* the refresh token, the headers and the token file as they were.
C11_RefreshNeedsRefreshToken ==
    [][\A c \in Callers :
        (Calls(c, "refresh") /\ refresh = None) =>
            /\ task'[c].pc = "done"
            /\ task'[c].res = Return("False")
            /\ task'[c].nSend = 0
            /\ UNCHANGED sessionVars]_vars

\* A refresh() refused for want of a refresh token on a client that holds
\* an access token.
C11_Witness ==
    \E c \in Callers :
        /\ task[c].op = "refresh" /\ task[c].pc = "done"
        /\ task[c].res = Return("False") /\ task[c].nSend = 0
        /\ refresh = None /\ token = "t1"
        /\ AuthOf(headers) = Bearer("t1")

\* C12: a refresh() the backend answers with a success status and a body
\* that carries a token returns True, stores that token as the access token
\* and derives the header from it; every refresh() that returns True leaves
\* the stored refresh token as it was before the call.
C12_RefreshReplacesAccessTokenOnly ==
    \A c \in Callers :
        (task[c].op = "refresh" /\ task[c].pc = "done") =>
            /\ (/\ task[c].cur.kind = "resp" /\ Ok(task[c].cur)
                /\ task[c].cur.body.kind = "obj" /\ task[c].cur.body.token # None)
               => /\ task[c].res = Return("True")
                  /\ token = task[c].cur.body.token
                  /\ AuthOf(headers) = "Bearer " \o task[c].cur.body.token
            /\ task[c].res = Return("True") =>
                  /\ task[c].nSend = 1
                  /\ refresh = task[c].pre.refresh

\* A refresh() that replaced the access token t1 by t3 and kept the refresh
\* token r1.
C12_Witness ==
    \E c \in Callers :
        /\ task[c].op = "refresh" /\ task[c].pc = "done"
        /\ task[c].res = Return("True")
        /\ task[c].pre = [token |-> "t1", refresh |-> "r1", auth |-> Bearer("t1")]
        /\ Creds = [token |-> "t3", refresh |-> "r1", auth |-> Bearer("t3")]

\* C13: every refresh() that fails (the transport fails, the status is no
\* success, the body does not decode, is no object or carries no token)
\* returns False, raises nothing and leaves the access token, the refresh
\* token and the Authorization header as they were before the call.
C13_FailedRefreshKeepsCredentials ==
    \A c \in Callers :
        (/\ task[c].op = "refresh" /\ task[c].pc = "done" /\ task[c].nSend = 1
         /\ \/ task[c].cur.kind = "fail"
            \/ ~Ok(task[c].cur)
            \/ task[c].cur.body.kind # "obj"
            \/ task[c].cur.body.token = None)
        => /\ task[c].res = Return("False")
           /\ Creds = task[c].pre

\* C14: logout() raises nothing, returns True only when the server call was
\* made and got a success status, and returns False when the call failed at
\* the transport or was rejected.
C14_LogoutReportsServerCall ==
    \A c \in Callers :
        (task[c].op = "logout" /\ task[c].pc = "done") =>
            /\ task[c].res.kind = "return"
            /\ task[c].res = Return("True") =>
                  /\ task[c].nSend = 1
                  /\ task[c].cur.kind = "resp" /\ Ok(task[c].cur)
            /\ (task[c].nSend = 1 /\ (task[c].cur.kind = "fail" \/ ~Ok(task[c].cur))) =>
                  task[c].res = Return("False")

\* C15: send(event, payload) on a client that holds no connection (never
\* connected, after close(), after the listener saw the stream end) raises
\* the not-connected error (ConnectionError) and writes nothing; on an open
\* stream it returns and writes one frame, the event and the payload, to the
\* stream the client holds and nothing to any other; on a stream that has
\* ended but that the client still holds it raises and writes nothing.
C15_SendNeedsOpenStream ==
    [][\A c \in Callers :
        Calls(c, "send") =>
            /\ wsConnection = 0 =>
                  /\ task'[c].res = Raise("ConnectionError")
                  /\ task'[c].nWrite = 0
                  /\ conns' = conns
            /\ (wsConnection # 0 /\ conns[wsConnection].open) =>
                  /\ task'[c].res = Return("None")
                  /\ task'[c].nWrite = 1
                  /\ conns' = [conns EXCEPT ![wsConnection].out =
                                  Append(@, <<"typing", "payload">>)]
            /\ (wsConnection # 0 /\ ~conns[wsConnection].open) =>
                  /\ task'[c].res.kind = "raise"
                  /\ conns' = conns]_vars

\* A send() refused on a client whose stream, on which an earlier send()
\* wrote its frame, has ended and was given up by the listener.
C15_Witness ==
    \E c \in Callers :
        /\ task[c].op = "send" /\ task[c].pc = "done"
        /\ task[c].res = Raise("ConnectionError") /\ task[c].nWrite = 0
        /\ wsConnection = 0
        /\ Len(conns) = 1 /\ ~conns[1].open
        /\ conns[1].out = <<(<<"typing", "payload">>)>>

\* C16: when the transport connect of a connect() fails (it yields no
\* connection), connect() raises the connection-failed error
\* (ConnectionError) after its one transport attempt, makes no further
\* attempt, creates no listener task, and the client holds what it held
\* before: it does not become connected.
C16_ConnectFailureSurfaced ==
    [][\A c \in Callers :
        (/\ task[c].op = "connect" /\ task[c].pc = "connecting"
         /\ task'[c].pc = "done" /\ conns' = conns)
        => /\ task'[c].res = Raise("ConnectionError")
           /\ task'[c].nConnect = 1
           /\ connectCalls' = connectCalls
           /\ Len(listeners') = Len(listeners)
           /\ wsConnection' = wsConnection]_vars

\* A connect() whose transport connect failed, on a client that was never
\* connected: one attempt, no connection, no listener task.
C16_Witness ==
    \E c \in Callers :
        /\ task[c].op = "connect" /\ task[c].pc = "done"
        /\ task[c].res = Raise("ConnectionError") /\ task[c].nConnect = 1
        /\ connectCalls = 1
        /\ conns = <<>> /\ listeners = <<>> /\ wsConnection = 0

\* C17: an exception a handler raises stays inside the dispatch: after a
\* listener called a handler that raised, the dispatch of that envelope still
\* calls the handlers registered after it, in order; the receive loop goes on
\* (the listener waits for the next frame, takes whatever frame comes, and
\* leaves only when the stream has ended); and the envelopes that arrive
\* later are dispatched to all their handlers.
C17_HandlerExceptionContained ==
    \A l \in Listeners :
        LET lr == listeners[l] IN
        lr.raised > 0 =>
            /\ lr.pc \in {"recv", "handler", "ended"}
            /\ lr.pc = "handler" => Called(lr) = SubSeq(lr.regs, 1, lr.idx)
            /\ (Through(lr) /\ Dispatches(lr.frame)) => Called(lr) = lr.regs
            /\ lr.pc = "ended" => ~conns[lr.reads].open
            /\ (lr.pc = "recv" /\ conns[lr.reads].open /\ framesLeft > 0) =>
                  \A f \in Frames : ENABLED ListenerRecv(l, f)

\* A listener that called a raising handler for an earlier envelope and,
\* for the envelope it is through with, the raising handler and then the
\* handler registered after it.
C17_Witness ==
    \E l \in Listeners :
        /\ listeners[l].raised = 2
        /\ listeners[l].pc = "recv"
        /\ listeners[l].frame.kind = "obj"
        /\ Called(listeners[l]) = <<"hRaise", "hSync">>
        /\ listeners[l].regs = <<"hRaise", "hSync">>

Open == wsConnection # 0 /\ conns[wsConnection].open

\* C19: closed is terminal for the client: once a connection of the client
\* has been closed (by close() or by the stream ending) and the client is not
\* open, the client never becomes open again, whatever is called on it.
C19_ClientNeverReopens ==
    [][((\E k \in 1..Len(conns) : ~conns[k].open) /\ ~Open) => ~Open']_vars

\* C20: the client never connects on its own: the transport's connect is
\* called only in a step in which a caller begins connect() while an access
\* token is set, once for each such call; no other step (a failed connect
\* ending, a stream ending, a listener leaving its loop) makes an attempt.
C20_NoAutomaticConnect ==
    [][/\ connectCalls' # connectCalls =>
            /\ connectCalls' = connectCalls + 1
            /\ \E c \in Callers : Calls(c, "connect") /\ token # None
       /\ \A c \in Callers :
            (Calls(c, "connect") /\ token # None) => connectCalls' = connectCalls + 1]_vars

\* After a connection whose stream the server ended and whose listener left
\* its loop, and a second connect() that failed: two connect() calls, two
\* attempts, nothing reconnected.
C20_Witness ==
    /\ connectCalls = 2
    /\ Len(conns) = 1 /\ ~conns[1].open
    /\ wsConnection = 0
    /\ \A l \in Listeners : listeners[l].pc = "ended"
    /\ \E c \in Callers :
          /\ task[c].op = "connect" /\ task[c].pc = "done"
          /\ task[c].res = Raise("ConnectionError")
          /\ opsLeft[c] = MaxStreamOps - 2

\* C21: every execute() that ends on a response that is no success (one the
\* refresh path did not recover) raises an ApiError with the status of that
\* response and the code and message of the error envelope of its body;
\* where the envelope is missing or malformed (a body that is no object, no
\* error member, an error member that is no object, a member missing) the
\* ApiError carries the defaults "Request failed" and "API_ERROR".
C21_ErrorEnvelopeDefaults ==
    \A c \in Callers :
        (/\ task[c].op = "execute" /\ task[c].pc = "done"
         /\ task[c].cur.kind = "resp" /\ ~Ok(task[c].cur))
        => task[c].res = ApiError(task[c].cur.status,
                                  FieldOr(task[c].cur.body.err.message, "Request failed"),
                                  FieldOr(task[c].cur.body.err.code, "API_ERROR"))

\* C22: a frame whose event is the reserved connection-established name
\* calls no handler, whatever is registered under that name, and the
\* receive loop goes on: the listener waits for the next frame, takes
\* whatever frame comes, and leaves only when the stream has ended.
C22_ReservedEventConsumed ==
    \A l \in Listeners :
        LET lr == listeners[l] IN
        (lr.frame.kind = "obj" /\ lr.frame.event = Established) =>
            /\ lr.invoked = <<>>
            /\ lr.pc \in {"recv", "ended"}
            /\ lr.pc = "ended" => ~conns[lr.reads].open
            /\ (lr.pc = "recv" /\ conns[lr.reads].open /\ framesLeft > 0) =>
                  \A f \in Frames : ENABLED ListenerRecv(l, f)

\* A listener that consumed a connection-established frame while two
\* handlers were registered under that name, on a stream still open.
C22_Witness ==
    \E l \in Listeners :
        /\ listeners[l].frame = Envelope(Established, "hi")
        /\ listeners[l].regs = <<"hSync", "hAsync">>
        /\ listeners[l].invoked = <<>>
        /\ listeners[l].pc = "recv"
        /\ conns[listeners[l].reads].open

\* C23: within one execute() the request is sent a second time only after
\* refresh() came to a successful end (a response that carries a new access
\* token), and the second request carries the token that refresh stored.
C23_RetryCarriesRefreshedToken ==
    [][\A c \in Callers :
          (/\ task[c].op = "execute" /\ task[c].pc = "refreshing"
           /\ task'[c].nSend = task[c].nSend + 1)
          => /\ task'[c].refreshed = "ok"
             /\ token' \in Tokens
             /\ task'[c].sent[2] = "Bearer " \o token']_vars

\* C26: when the request of execute() fails at the transport, the call
\* ends there with an error raised to its caller: no refresh is attempted,
\* no further request is sent, and the credentials are as they were before
\* the failure.
C26_TransportFailureSurfaced ==
    [][\A c \in Callers :
          (/\ task[c].op = "execute" /\ task[c].pc = "req"
           /\ task'[c] # task[c] /\ task'[c].cur.kind = "fail")
          => /\ task'[c].pc = "done"
             /\ task'[c].res.kind = "raise"
             /\ task'[c].nSend = task[c].nSend
             /\ task'[c].nRefresh = task[c].nRefresh
             /\ Creds' = Creds]_vars

\* An execute() of a client that holds a refresh token and could have
\* retried, ended by the transport failure of its first request.
C26_Witness ==
    \E c \in Callers :
        /\ task[c].op = "execute" /\ task[c].pc = "done"
        /\ task[c].cur.kind = "fail"
        /\ task[c].res = Raise("ClientError")
        /\ task[c].nSend = 1 /\ task[c].nRefresh = 0
        /\ task[c].retryAuth /\ Truthy(refresh)
        /\ Creds = task[c].pre

\* C25: execute() calls refresh only on a 401 response while a refresh
\* token is stored and the retry is still allowed; on a 401 without a
\* refresh token and on any other non-success status it has sent one
\* request and made no refresh call when it ends, the credentials are those
\* it found, and it raises ApiError.
C25_RefreshOnlyOnUnauthorized ==
    \A c \in Callers :
        (task[c].op = "execute" /\ task[c].pc = "done" /\ task[c].resp1.kind = "resp") =>
            LET mayRefresh == task[c].resp1.status = 401 /\ Truthy(task[c].pre.refresh) IN
            /\ task[c].nRefresh > 0 => mayRefresh
            /\ task[c].nRefresh <= 1
            /\ (~Ok(task[c].resp1) /\ ~mayRefresh) =>
                  /\ task[c].nSend = 1
                  /\ task[c].nRefresh = 0
                  /\ Creds = task[c].pre
                  /\ task[c].res.kind = "raise"
                  /\ task[c].res.exc = "ApiError"
                  /\ task[c].res.status = task[c].resp1.status

\* The positions of the calls a listener made in this step.
NewCalls(l) ==
    IF listeners'[l].frame = listeners[l].frame /\ framesLeft' = framesLeft
    THEN (Len(listeners[l].invoked) + 1)..Len(listeners'[l].invoked)
    ELSE 1..Len(listeners'[l].invoked)

\* C27: the receive loop takes a frame only when the dispatch of the frame
\* before it is over, and handler runs never overlap: while a coroutine
\* handler is awaited no frame is taken and no other handler is called, and
\* a coroutine handler that is called is the last call of its step, the
\* listener waiting for its end.
C27_HandlersNeverOverlap ==
    [][\A l \in Listeners :
          LET lr == listeners[l]
              nx == listeners'[l] IN
          /\ framesLeft' < framesLeft => lr.pc = "recv"
          /\ (lr.pc = "handler" /\ nx # lr) =>
                /\ nx.frame = lr.frame
                /\ Len(nx.invoked) >= Len(lr.invoked)
                /\ SubSeq(nx.invoked, 1, Len(lr.invoked)) = lr.invoked
                /\ IsCoroutine(lr.invoked[Len(lr.invoked)][1])
          /\ \A k \in NewCalls(l) :
                IsCoroutine(nx.invoked[k][1]) =>
                    k = Len(nx.invoked) /\ nx.pc = "handler"]_vars

\* A listener awaiting the coroutine handler of a frame while a plain
\* handler registered after it has not been called and the server has a
\* further frame to send on the open stream.
C27_Witness ==
    \E l \in Listeners :
        /\ listeners[l].pc = "handler"
        /\ listeners[l].regs = <<"hAsync", "hSync">>
        /\ listeners[l].invoked = <<<<"hAsync", "hi">>>>
        /\ framesLeft > 0
        /\ conns[listeners[l].reads].open

\* C28: once close() was called on a client whose stream is open, the
\* listener of that connection leaves its loop and the stream is closed,
\* given that the event loop runs the listener, that every handler that was
\* started comes to its end and that the closing handshake ends.
C28_CloseEndsReceiveLoop ==
    \A c \in Callers :
        (task[c].op = "close" /\ task[c].pc = "closing" /\ task[c].conn = 1)
            ~> (listeners[1].pc = "ended" /\ ~conns[1].open /\ wsConnection = 0)

\* close() returned on a stream the server had not ended, after the
\* listener dispatched a frame to a coroutine handler, and the listener has
\* left its loop.
C28_Witness ==
    \E c \in Callers :
        /\ task[c].op = "close" /\ task[c].pc = "done" /\ task[c].conn = 1
        /\ listeners[1].pc = "ended" /\ listeners[1].reads = 1
        /\ listeners[1].invoked = <<<<"hAsync", "hi">>>>
        /\ ~conns[1].open /\ wsConnection = 0
        /\ framesLeft > 0

\* An execute() call of caller c stands at one of its awaits.
InFlight(c) == task[c].op = "execute" /\ task[c].pc \in {"req", "refreshing"}

\* C29: the receive loop and the API calls do not hold each other up.
\* While a listener awaits a coroutine handler or waits for a frame (and no
\* listener task waits for its first run), a caller with calls left can
\* start execute(), and an execute() that stands at its request or at its
\* refresh can take any response and go on to its end; while an execute()
\* stands at its request, its refresh or its retried request, a listener
\* whose turn it is takes the next frame of its open stream, and a handler
\* that is awaited can end.
C29_LoopAndCallsIndependent ==
    /\ \A c \in Callers :
          (Pending = {} /\ \E l \in Listeners : listeners[l].pc \in {"handler", "recv"}) =>
              /\ (task[c].pc \in {"idle", "done"} /\ opsLeft[c] > 0) => ENABLED RequestStart(c)
              /\ (task[c].op = "execute" /\ task[c].pc = "req") =>
                    \A o \in ClientRequestOutcomes : ENABLED RequestRecv(c, o)
              /\ (task[c].op = "execute" /\ task[c].pc = "refreshing") =>
                    \A o \in ClientRefreshOutcomes : ENABLED RequestRefreshed(c, o)
    /\ \A l \in Listeners :
          ((\E c \in Callers : InFlight(c)) /\ ListenerMayRun(l)) =>
              /\ (listeners[l].pc = "recv" /\ conns[listeners[l].reads].open /\ framesLeft > 0) =>
                    ENABLED ListenerRecv(l, Envelope("message", "hi"))
              /\ listeners[l].pc = "handler" => ENABLED HandlerDone(l)

\* The retried request of an execute() is under way, after a refresh that
\* stored a new token, while the listener awaits the coroutine handler the
\* frame of the server was dispatched to.
C29_Witness ==
    \E c \in Callers :
        /\ InFlight(c) /\ task[c].nSend = 2 /\ token = "t3"
        /\ listeners[1].pc = "handler"
        /\ listeners[1].invoked = <<<<"hAsync", "hi">>>>
        /\ conns[1].open

\* The step is one of login, refresh or logout, made by itself or as the
\* successful refresh inside execute().
AuthStep ==
    \E c \in Callers :
        \/ task'[c].op \in {"login", "refresh", "logout"} /\ task'[c] # task[c]
        \/ /\ task[c].op = "execute" /\ task[c].pc = "refreshing"
           /\ task'[c].refreshed = "ok"

\* C30: the access token, the refresh token and the Authorization header
\* change only in a step of login, refresh or logout: every step of
\* connect, send, on, close, of the receive loop and of a handler leaves
\* them as they are, and so does an execute() whose refresh did not
\* succeed, which ends with the credentials it found.
C30_OnlyAuthCallsChangeCredentials ==
    /\ [][Creds' # Creds => AuthStep]_vars
    /\ [](\A c \in Callers :
             (/\ task[c].pc = "done"
              /\ \/ task[c].op \in {"connect", "send", "on", "close"}
                 \/ task[c].op = "execute" /\ task[c].refreshed # "ok")
             => Creds = task[c].pre)

\* An execute() that got 401 and whose refresh failed has ended, beside a
\* listener that dispatched a frame to a handler, and the client holds the
\* credentials it was connected with.
C30_Witness ==
    \E c \in Callers :
        /\ task[c].op = "execute" /\ task[c].pc = "done"
        /\ task[c].nRefresh = 1 /\ task[c].refreshed = "failed"
        /\ Len(listeners[1].invoked) = 1
        /\ Creds = [token |-> "t1", refresh |-> "r1", auth |-> "Bearer t1"]

\* Caller d sends a request of execute() in this step: the first one or the
\* retried one.
IssuesRequest(d) ==
    /\ task'[d].op = "execute" /\ task'[d].pc = "req"
    /\ task[d].pc # "req"

\* C24: a refresh that succeeds inside execute() (its response carries a
\* token) changes the session of the client, not of the call: the header of
\* the session is the bearer header of the new token from that step on,
\* nothing but a login, refresh or logout step changes the credentials after
\* it, and every request a call of any caller sends carries the header the
\* session has at that moment.
C24_RefreshInExecuteChangesSession ==
    [][/\ \A c \in Callers :
             (/\ task[c].op = "execute" /\ task[c].pc = "refreshing"
              /\ task'[c].refreshed = "ok" /\ token' \in Tokens)
             => /\ AuthOf(headers') = "Bearer " \o token'
                /\ task'[c].sent[2] = AuthOf(headers')
       /\ Creds' # Creds => AuthStep
       /\ \A d \in Callers :
             IssuesRequest(d) =>
                 task'[d].sent[Len(task'[d].sent)] = AuthOf(headers')]_vars

\* One caller's execute() was refreshed to the token t3 and ended; the
\* only call of the other caller, an execute(), sent its request with that
\* token although it was never rejected.
C24_Witness ==
    \E c, d \in Callers :
        /\ c # d
        /\ task[c].op = "execute" /\ task[c].pc = "done" /\ task[c].refreshed = "ok"
        /\ task[c].sent = <<"Bearer t1", "Bearer t3">>
        /\ task[d].op = "execute" /\ opsLeft[d] = MaxSharedOps - 1
        /\ task[d].sent = <<"Bearer t3">>
        /\ task[d].nRefresh = 0
        /\ token = "t3"

\* Caller c makes the call on(e, h) in this step.
CallsOn(c, e, h) ==
    /\ task'[c].op = "on" /\ opsLeft'[c] = opsLeft[c] - 1
    /\ regOrder' = [regOrder EXCEPT ![e] = Append(@, h)]

\* C31: the handler lists only grow, and only by on(): a step of any other
\* operation (login, refresh, logout, execute, connect, send, close, a
\* frame, a handler ending, a stream ending) leaves every list as it is,
\* and on(T, h) puts h at the end of the list of T and leaves the list of
\* every other event type as it is; so each list is at every moment the
\* handlers of the on() calls made for its type, oldest first.
C31_RegistrationsPersist ==
    /\ [][\/ \A e \in EventTypes : Registered(wsCallbacks', e) = Registered(wsCallbacks, e)
          \/ \E c \in Callers, e \in EventTypes, h \in Handlers :
                /\ CallsOn(c, e, h)
                /\ Registered(wsCallbacks', e) = Append(Registered(wsCallbacks, e), h)
                /\ \A x \in EventTypes \ {e} :
                      Registered(wsCallbacks', x) = Registered(wsCallbacks, x)]_vars
    /\ [](\A e \in EventTypes : Registered(wsCallbacks, e) = regOrder[e])

\* Two handlers were registered for one event type, a frame of that type
\* was dispatched to both, the stream ended and the listener left its loop:
\* the list holds both handlers, in the order of the calls.
C31_Witness ==
    /\ Registered(wsCallbacks, "message") = <<"hAsync", "hSync">>
    /\ Registered(wsCallbacks, Established) = <<>>
    /\ Len(listeners[1].invoked) = 2
    /\ listeners[1].pc = "ended"
    /\ ~conns[1].open /\ wsConnection = 0

\* Caller c awaits the response of a login or of a refresh, made by itself
\* or inside execute().
AwaitsAuth(c) ==
    \/ task[c].op \in {"login", "refresh"} /\ task[c].pc = "wait"
    \/ task[c].op = "execute" /\ task[c].pc = "refreshing"

\* C32: when a logout() of another caller has returned and the session is
\* cleared while a login or refresh that began before the clearing (it
\* found credentials when it began) still awaits its response, the end of
\* that login or refresh leaves the session without access token and
\* without Authorization header.
C32_ClearedStaysCleared ==
    [][\A c \in Callers :
          (/\ AwaitsAuth(c) /\ task'[c] # task[c]
           /\ task[c].pre.token # None
           /\ token = None /\ AuthOf(headers) = Absent
           /\ \E d \in Callers \ {c} : task[d].op = "logout" /\ task[d].pc = "done")
          => token' = None /\ AuthOf(headers') = Absent]_vars

\* C33: when a listener leaves its loop, or a close() call comes back from
\* closing its connection, while the client holds another connection than
\* the one that listener read or that call closed, the client goes on
\* holding that connection.
C33_LaterConnectionKept ==
    [][/\ \A l \in Listeners :
             (/\ listeners[l].pc # "ended" /\ listeners'[l].pc = "ended"
              /\ wsConnection # 0 /\ wsConnection # listeners[l].reads)
             => wsConnection' = wsConnection
       /\ \A c \in Callers :
             (/\ task[c].op = "close" /\ task[c].pc = "closing" /\ task'[c].pc = "done"
              /\ wsConnection # 0 /\ wsConnection # task[c].conn)
             => wsConnection' = wsConnection]_vars

\* C34: whenever no call is under way, every stream that is open is the
\* one the client holds, so at most one is open, and no two listeners that
\* have not left their loop read the same connection.
C34_OneStreamOneLoop ==
    (\A c \in Callers : task[c].pc \in {"idle", "done"}) =>
        /\ \A k \in 1..Len(conns) : conns[k].open => wsConnection = k
        /\ \A l1, l2 \in Listeners :
              (/\ l1 # l2
               /\ listeners[l1].pc \in {"recv", "handler"}
               /\ listeners[l2].pc \in {"recv", "handler"})
              => listeners[l1].reads # listeners[l2].reads

\* C35: once a close() call that closed the connection a listener reads has
\* returned, that listener calls no further handler.
C35_NoHandlerAfterClose ==
    [][\A l \in Listeners :
          (\E c \in Callers :
              /\ task[c].op = "close" /\ task[c].pc = "done"
              /\ task[c].conn = listeners[l].reads)
          => listeners'[l].invoked = listeners[l].invoked]_vars

\* C36: the handlers called for a frame are among those registered for its
\* event type when its dispatch began: when the first handler of a frame is
\* a coroutine the listener awaits, the calls made for the frame after it
\* ended stay within the list as it was when the frame arrived, whatever
\* on() calls were made in between.
C36_HandlersFixedAtDispatch ==
    [][\A l \in Listeners :
          (/\ listeners[l].pc = "handler" /\ listeners'[l] # listeners[l]
           /\ Len(listeners[l].invoked) = 1)
          => Len(listeners'[l].invoked) <= Len(listeners[l].regs)]_vars

\* C37: a well-formed frame taken when no on() call has been made for its
\* event type calls nothing and the listener turns to the next frame; and
\* a listener that waits for a frame makes no call until a frame arrives,
\* whatever is registered meanwhile, so the frame is not delivered later.
C37_UnhandledFrameDropped ==
    [][\A l \in Listeners :
          /\ (/\ framesLeft' < framesLeft /\ listeners[l].pc = "recv"
              /\ \A k \in Listeners \ {l} : listeners'[k] = listeners[k]
              /\ listeners'[l].frame.kind = "obj"
              /\ regOrder[listeners'[l].frame.event] = <<>>)
             => listeners'[l].invoked = <<>> /\ listeners'[l].pc = "recv"
          /\ (listeners[l].pc = "recv" /\ framesLeft' = framesLeft)
             => listeners'[l].invoked = listeners[l].invoked]_vars

\* A "message" frame was taken and dropped when nothing was registered for
\* "message"; a handler registered for it afterwards has not been called,
\* and the listener waits for the next frame.
C37_Witness ==
    \E l \in Listeners :
        /\ listeners[l].frame = Envelope("message", "hi")
        /\ listeners[l].regs = <<>>
        /\ listeners[l].invoked = <<>>
        /\ listeners[l].pc = "recv"
        /\ regOrder["message"] = <<"hSync">>
        /\ conns[listeners[l].reads].open /\ framesLeft > 0

\* C38: no step of logout() or refresh() touches the stream side: the
\* connection the client holds, the streams and the listeners stay as they
\* are; and with the credentials cleared or replaced, a listener waiting on
\* its open stream still takes the next frame, and a send() on the open
\* connection the client holds writes its frame and returns.
C38_AuthCallsLeaveStreamAlone ==
    /\ [][/\ \A c \in Callers :
                (task'[c].op \in {"logout", "refresh"} /\ task'[c] # task[c]) =>
                    /\ wsConnection' = wsConnection
                    /\ conns' = conns
                    /\ \A l \in Listeners :
                          /\ listeners'[l].pc = listeners[l].pc
                          /\ listeners'[l].reads = listeners[l].reads
          /\ \A c \in Callers :
                (/\ Calls(c, "send") /\ Open /\ ~Closing(wsConnection)
                 /\ token \in {None, "t3"})
                => /\ task'[c].res = Return("None")
                   /\ Len(conns'[wsConnection].out) = Len(conns[wsConnection].out) + 1]_vars
    /\ [](\A l \in Listeners :
             (/\ token \in {None, "t3"}
              /\ listeners[l].pc = "recv" /\ ListenerMayRun(l)
              /\ conns[listeners[l].reads].open /\ framesLeft > 0)
             => ENABLED ListenerRecv(l, Envelope("message", "hi")))

\* After a logout() that cleared the credentials, a send() on the open
\* connection wrote its frame and returned, and the listener waits for the
\* next frame of the stream.
C38_Witness ==
    \E c \in Callers :
        /\ token = None /\ refresh = None /\ AuthOf(headers) = Absent
        /\ task[c].op = "send" /\ task[c].res = Return("None")
        /\ Open /\ wsConnection = 1
        /\ Len(conns[1].out) = 1
        /\ listeners[1].pc = "recv" /\ framesLeft > 0

\* C39: once logout() has returned, on whichever path, a client constructed
\* from the token file as it is then starts without access token and
\* without refresh token.
C39_TokenStoreEmptyAfterLogout ==
    \A c \in Callers :
        (task[c].op = "logout" /\ task[c].pc = "done") =>
            /\ LoadedToken(None, tokenFile) = None
            /\ LoadedRefresh(None, tokenFile) = None

=============================================================================
